---- MODULE Spec2Model ----
(***************************************************************************)
(* Model of the V7 reference-extraction pipeline of                        *)
(* backend/hipdam/reference_profiler.py (Scan -> Map -> Judge ->           *)
(* Protocol-Validate -> Format), of the Pydantic schemas in                *)
(* backend/hipdam/schemas/reference_schemas.py, of the parsers in          *)
(* backend/utils/llm_parser.py and of the worker-judge loop of             *)
(* backend/hipdam/contract_pipeline.py.                                    *)
(*                                                                         *)
(* Text that the code compares character by character (the verbatim span)  *)
(* is a sequence of one-character strings; identifiers, verdicts and       *)
(* reasons are TLA+ strings.  Python's None is the value NoneVal.          *)
(***************************************************************************)
EXTENDS Integers, Sequences, FiniteSets, TLC

VARIABLES
    pv_pc,          \* position of the validator: "in", "once", "twice"
    validated_refs, \* the list handed to _protocol_validate (all_judged)
    validated_mut,  \* the same list after the call (the dicts are written in place)
    final_refs,     \* the list _protocol_validate returned
    protocol_stats, \* the stats dict _protocol_validate returned
    final_refs2,    \* the list returned when _protocol_validate is run on final_refs
    pc,             \* position of extract_references
    doc_ok,         \* FALSE when doc_payload is not a list of section dicts
    n_sections,     \* len(doc_payload)
    scan_tasks,     \* the process_batch tasks of _scan_batches
    map_tasks,      \* the process_mapper_batch tasks of _map_targets
    judge_tasks,    \* the judge_batch tasks of _judge_references
    scanned_refs,   \* what _scan_batches returned
    mapped_refs,    \* what _map_targets returned
    sem,            \* free slots of the Mapper's asyncio.Semaphore
    completed_chunks, \* the Mapper's progress counter
    progress,       \* the values passed to progress_callback, in order
    result,         \* what extract_references returned
    parse_args,     \* item_model and the JSON value of the text given to
                    \* parse_llm_json_as_list
    parse_result,   \* what parse_llm_json_as_list returned, or that it raised
    cancelled,      \* TRUE once the task awaiting extract_references was cancelled
    response_text,  \* the text given to parse_llm_json
    json_result,    \* what parse_llm_json returned
    retry_pc,       \* position of _execute_task_with_retry
    max_retries,    \* config["RETRY_STRATEGY"]["max_retries"]
    attempt,        \* the loop counter of _execute_task_with_retry
    worker_calls,   \* worker oracle calls made so far
    worker_data,    \* the parsed reply of the last worker call
    retry_result    \* the data _execute_task_with_retry returned

pvVars == <<pv_pc, validated_refs, validated_mut, final_refs, protocol_stats,
            final_refs2>>

pipeVars == <<pc, doc_ok, n_sections, scan_tasks, map_tasks, judge_tasks,
              scanned_refs, mapped_refs, sem, completed_chunks, progress, result,
              cancelled>>

parseVars == <<parse_args, parse_result>>

jsonVars == <<response_text, json_result>>

retryVars == <<retry_pc, max_retries, attempt, worker_calls, worker_data,
               retry_result>>

vars == <<pvVars, pipeVars, parseVars, jsonVars, retryVars>>

-----------------------------------------------------------------------------
(* Python values *)

NoneVal == "<None>"

\* Python truthiness of an Optional[str]: None and "" are falsy.
Falsy(x) == x = NoneVal \/ x = ""

\* dict.get(key, default)
Get(d, k, default) == IF k \in DOMAIN d THEN d[k] ELSE default

-----------------------------------------------------------------------------
(* str.lower(), str.strip(), `a in b` on character sequences *)

LowerChar(c) == IF c = "A" THEN "a" ELSE IF c = "B" THEN "b" ELSE c

Lower(s) == [i \in 1..Len(s) |-> LowerChar(s[i])]

IsSpace(c) == c = " "

RECURSIVE LStrip(_)
LStrip(s) == IF s # <<>> /\ IsSpace(Head(s)) THEN LStrip(Tail(s)) ELSE s

RECURSIVE RStrip(_)
RStrip(s) ==
    IF s # <<>> /\ IsSpace(s[Len(s)]) THEN RStrip(SubSeq(s, 1, Len(s) - 1)) ELSE s

Strip(s) == RStrip(LStrip(s))

\* Python's `a in b` for strings: a is a contiguous substring of b.
StrIn(a, b) ==
    \E i \in 0..(Len(b) - Len(a)) : SubSeq(b, i + 1, i + Len(a)) = a

\* d[k] = v on a dict (the key is added when absent)
SetKey(d, k, v) == [x \in (DOMAIN d) \cup {k} |-> IF x = k THEN v ELSE d[x]]

-----------------------------------------------------------------------------
(* ReferenceProfiler._protocol_validate *)

MissingTargetReason == "Reference target could not be identified."

\* CoerceMissingTarget without the default reasoning
CoerceMissingTarget_NoReason(ref) ==
    IF Falsy(Get(ref, "target_id", NoneVal))
    THEN SetKey(ref, "judge_verdict", "REJECT")
    ELSE ref

\* CoerceMissingTarget with the reasoning always replaced
CoerceMissingTarget_AlwaysReason(ref) ==
    IF Falsy(Get(ref, "target_id", NoneVal))
    THEN SetKey(SetKey(ref, "judge_verdict", "REJECT"), "reasoning",
                MissingTargetReason)
    ELSE ref

\* CoerceMissingTarget with the Judge's verdict left as it is
CoerceMissingTarget_KeepVerdict(ref) ==
    IF Falsy(Get(ref, "target_id", NoneVal))
       /\ Falsy(Get(ref, "reasoning", NoneVal))
    THEN SetKey(ref, "reasoning", MissingTargetReason)
    ELSE ref

\* lines 646-650: a falsy target_id makes the record a broken reference; the
\* input dict itself is rewritten.
CoerceMissingTarget(ref) ==
    IF Falsy(Get(ref, "target_id", NoneVal))
    THEN LET r1 == SetKey(ref, "judge_verdict", "REJECT")
         IN IF Falsy(Get(r1, "reasoning", NoneVal))
            THEN SetKey(r1, "reasoning", MissingTargetReason)
            ELSE r1
    ELSE ref

\* lines 646-647: the target_id the validator works with
EffectiveTarget(ref) ==
    IF Falsy(Get(ref, "target_id", NoneVal)) THEN "UNKNOWN" ELSE ref.target_id

\* OverlapsEarlier with the containment tested in one direction only
OverlapsEarlier_OneWay(final, source_id, target_id, ref) ==
    LET current_verbatim == Strip(Lower(Get(ref, "source_verbatim", <<>>)))
    IN \E k \in 1..Len(final) :
          /\ final[k].source_id = source_id
          /\ final[k].target_id = target_id
          /\ LET prev_verbatim == Strip(Lower(Get(final[k], "source_context", <<>>)))
             IN /\ current_verbatim # <<>>
                /\ prev_verbatim # <<>>
                /\ StrIn(current_verbatim, prev_verbatim)

\* lines 673-688: the record's text against every earlier output record of the
\* same (source_id, target_id) pair
OverlapsEarlier(final, source_id, target_id, ref) ==
    LET current_verbatim == Strip(Lower(Get(ref, "source_verbatim", <<>>)))
    IN \E k \in 1..Len(final) :
          /\ final[k].source_id = source_id
          /\ final[k].target_id = target_id
          /\ LET prev_verbatim == Strip(Lower(Get(final[k], "source_context", <<>>)))
             IN /\ current_verbatim # <<>>
                /\ prev_verbatim # <<>>
                /\ \/ StrIn(current_verbatim, prev_verbatim)
                   \/ StrIn(prev_verbatim, current_verbatim)

\* IsDuplicateFlag without the exemption of "UNKNOWN" targets
IsDuplicateFlag_UnknownIncluded(final, seen_pairs, source_id, target_id, ref) ==
    OverlapsEarlier(final, source_id, target_id, ref)

\* lines 664-691: is_duplicate_flag
IsDuplicateFlag(final, seen_pairs, source_id, target_id, ref) ==
    /\ target_id # "UNKNOWN"
    /\ <<source_id, target_id>> \in seen_pairs
    /\ OverlapsEarlier(final, source_id, target_id, ref)

\* lines 666-691: seen_pairs after the record
SeenAfter(seen_pairs, source_id, target_id) ==
    IF target_id # "UNKNOWN" /\ <<source_id, target_id>> \notin seen_pairs
    THEN seen_pairs \cup {<<source_id, target_id>>}
    ELSE seen_pairs

\* lines 696-697: "Always ACCEPT - validator never rejects, only flags"
SystemVerdict(is_duplicate_flag) == "ACCEPT"

\* IsSelfRef taken from the Judge's flag alone
IsSelfRef_JudgeOnly(source_id, target_id, ref) ==
    Get(ref, "is_self_reference", FALSE)

\* lines 656-657: CHECK 1
IsSelfRef(source_id, target_id, ref) == source_id = target_id

\* lines 699-713: the output record
BuildFinalRef(ref, source_id, target_id, is_duplicate_flag) ==
    [ source_id         |-> source_id,
      source_header     |-> Get(ref, "source_header", ""),
      source_context    |-> Get(ref, "source_verbatim", <<>>),
      target_id         |-> target_id,
      target_header     |-> "",
      target_type       |-> "UNKNOWN",
      is_self_reference |-> IsSelfRef(source_id, target_id, ref),
      is_duplicate      |-> is_duplicate_flag,
      mapper_verdict    |-> Get(ref, "mapper_verdict", "UNKNOWN"),
      judge_verdict     |-> Get(ref, "judge_verdict", "UNKNOWN"),
      system_verdict    |-> SystemVerdict(is_duplicate_flag),
      reasoning         |-> Get(ref, "reasoning", "") ]

PVInit(refs) ==
    [ final      |-> <<>>,
      seen_pairs |-> {},
      input      |-> <<>>,
      stats      |-> [ input_count |-> Len(refs), duplicates |-> 0,
                       self_references |-> 0, passed |-> 0,
                       skipped_missing_ids |-> 0 ] ]

\* lines 633-716: one iteration of the loop
PVStep(st, ref0) ==
    LET source_id == Get(ref0, "source_id", NoneVal)
    IN IF Falsy(source_id)
       THEN [st EXCEPT !.input = Append(@, ref0),
                       !.stats.skipped_missing_ids = @ + 1]
       ELSE LET target_id == EffectiveTarget(ref0)
                ref       == CoerceMissingTarget(ref0)
                dup       == IsDuplicateFlag(st.final, st.seen_pairs, source_id,
                                             target_id, ref)
                self      == IsSelfRef(source_id, target_id, ref)
            IN [ final      |-> Append(st.final,
                                       BuildFinalRef(ref, source_id, target_id, dup)),
                 seen_pairs |-> SeenAfter(st.seen_pairs, source_id, target_id),
                 input      |-> Append(st.input, ref),
                 stats      |-> [st.stats EXCEPT
                                   !.duplicates = @ + (IF dup THEN 1 ELSE 0),
                                   !.self_references = @ + (IF self THEN 1 ELSE 0),
                                   !.passed = @ + 1] ]

RECURSIVE PVLoop(_, _)
PVLoop(st, refs) ==
    IF refs = <<>> THEN st ELSE PVLoop(PVStep(st, Head(refs)), Tail(refs))

\* lines 611-726: .final is the returned list, .stats the returned stats and
\* .input the caller's list as the in-place writes leave it
ProtocolValidate(refs) == PVLoop(PVInit(refs), refs)

-----------------------------------------------------------------------------
(* Pydantic models of hipdam/schemas/reference_schemas.py.  A model applied *)
(* to an item gives [ok |-> FALSE] for a ValidationError and otherwise      *)
(* [ok |-> TRUE, value |-> the instance].                                   *)

\* str.strip() on an identifier or header; " " is the blank string of the model
StripId(x) == IF x = " " THEN "" ELSE x

RECURSIVE CollapseRuns(_)
CollapseRuns(s) ==
    IF Len(s) < 2 THEN s
    ELSE IF IsSpace(s[1]) /\ IsSpace(s[2]) THEN CollapseRuns(Tail(s))
    ELSE <<s[1]>> \o CollapseRuns(Tail(s))

\* clean_verbatim: ' '.join(v.split())
CleanVerbatim(v) == CollapseRuns(Strip(v))

HasStr(item, k) == k \in DOMAIN item /\ item[k] # NoneVal

\* ScannedReference(**item)
ScannedReference(item) ==
    IF /\ HasStr(item, "source_id") /\ StripId(item.source_id) # ""
       /\ HasStr(item, "source_header") /\ StripId(item.source_header) # ""
       /\ "source_verbatim" \in DOMAIN item
       /\ CleanVerbatim(item.source_verbatim) # <<>>
    THEN [ ok |-> TRUE,
           value |-> [ source_id       |-> StripId(item.source_id),
                       source_header   |-> StripId(item.source_header),
                       source_verbatim |-> CleanVerbatim(item.source_verbatim) ] ]
    ELSE [ ok |-> FALSE ]

JustificationMin == 5
JustificationMax == 200

\* validate_target_consistency: the two `raise` conditions, negated
TargetConsistent(is_valid, target_id) ==
    /\ ~(is_valid /\ Falsy(target_id))
    /\ ~(~is_valid /\ ~Falsy(target_id))

\* MappedReference(**item)
MappedReference(item) ==
    LET target_id == Get(item, "target_id", NoneVal)
    IN IF /\ HasStr(item, "source_id")
          /\ HasStr(item, "source_header")
          /\ "source_verbatim" \in DOMAIN item
          /\ "is_valid" \in DOMAIN item
          /\ HasStr(item, "justification")
          /\ Len(item.justification) >= JustificationMin
          /\ Len(item.justification) <= JustificationMax
          /\ TargetConsistent(item.is_valid, target_id)
       THEN [ ok |-> TRUE,
              value |-> [ source_id       |-> item.source_id,
                          source_header   |-> item.source_header,
                          source_verbatim |-> item.source_verbatim,
                          target_id       |-> target_id,
                          is_valid        |-> item.is_valid,
                          justification   |-> item.justification,
                          mapper_verdict  |-> Get(item, "mapper_verdict", "REJECT") ] ]
       ELSE [ ok |-> FALSE ]

ItemModel(model, item) ==
    IF model = "ScannedReference" THEN ScannedReference(item) ELSE MappedReference(item)

-----------------------------------------------------------------------------
(* utils/llm_parser.py: parse_llm_json_as_list on the JSON value the text   *)
(* holds.  An oracle reply is [kind |-> "raise"] (the call raised),         *)
(* [kind |-> "none"] (no JSON in the text), [kind |-> "list", items |-> s], *)
(* [kind |-> "wrapped", items |-> s] (a dict {"references": [...]}) or      *)
(* [kind |-> "object", item |-> d] (one dict).  A list element that is not  *)
(* a JSON object is NonObject.                                              *)

NonObject == [ nonobject |-> TRUE ]

IsObject(item) == "nonobject" \notin DOMAIN item

Raised == [ ok |-> FALSE, items |-> <<>> ]

RECURSIVE ValidatedItems(_, _)
ValidatedItems(model, data) ==
    IF data = <<>> THEN <<>>
    ELSE LET m == ItemModel(model, Head(data))
         IN (IF m.ok THEN <<m.value>> ELSE <<>>) \o ValidatedItems(model, Tail(data))

\* lines 248-268: item_model(**item) raises TypeError, which is not caught,
\* for an element that is no mapping; a ValidationError drops the item; when
\* every item failed the function raises ValueError.
ValidateList(model, data) ==
    IF \E i \in 1..Len(data) : ~IsObject(data[i]) THEN Raised
    ELSE LET validated == ValidatedItems(model, data)
         IN IF Len(validated) < Len(data) /\ validated = <<>> THEN Raised
            ELSE [ ok |-> TRUE, items |-> validated ]

\* lines 185-268
ParseAsList(model, reply) ==
    CASE reply.kind = "none"    -> Raised
      [] reply.kind = "list"    -> ValidateList(model, reply.items)
      [] reply.kind = "wrapped" -> ValidateList(model, reply.items)
      [] reply.kind = "object"  ->
            IF ItemModel(model, reply.item).ok
            THEN ValidateList(model, <<reply.item>>)
            ELSE Raised

-----------------------------------------------------------------------------
(* ReferenceProfiler._format_output_v7 and the results of extract_references *)

\* the sections of the document: ids "s1", "s2", ...
SectionId(i) == "s" \o ToString(i)

\* section.get("type") of the i-th section of doc_payload: the document
\* repeats the four types in this order
SectionTypes == << "CONTENT", "INFO", "SKIP", "HEADER" >>

SectionType(i) == SectionTypes[((i - 1) % Len(SectionTypes)) + 1]

\* line 826: "source_documents" is doc_payload itself
SourceDocuments(n) == [i \in 1..n |-> SectionId(i)]

\* lines 810-814: one lexicon entry per section of doc_payload
Lexicon(n) == [i \in 1..n |-> SectionId(i)]

\* lines 816-818
InfoSectionIds(n) ==
    { SectionId(i) : i \in { j \in 1..n : SectionType(j) \in {"INFO", "SKIP"} } }

\* section_index.get(target_id, {}) of _prepare_inputs_v7 (lines 803-808)
InIndex(n, id) == \E i \in 1..n : SectionId(i) = id

\* section_index[id]["type"]
TypeOfId(n, id) == SectionType(CHOOSE i \in 1..n : SectionId(i) = id)

\* _map_targets, lines 989-993: the sections offered to the Mapper's oracle
TargetSections(n) ==
    SelectSeq(Lexicon(n), LAMBDA id : id \notin InfoSectionIds(n))

\* lines 1334-1353: the surfaced form of one final reference
SurfacedRef(n, ref) ==
    [ source_id         |-> ref.source_id,
      source_header     |-> ref.source_header,
      source_context    |-> ref.source_context,
      target_id         |-> ref.target_id,
      target_header     |-> IF InIndex(n, ref.target_id) THEN "H"
                            ELSE Get(ref, "target_header", ""),
      target_type       |-> IF InIndex(n, ref.target_id) THEN TypeOfId(n, ref.target_id)
                            ELSE Get(ref, "target_type", "UNKNOWN"),
      reasoning         |-> Get(ref, "reasoning", ""),
      mapper_verdict    |-> Get(ref, "mapper_verdict", "UNKNOWN"),
      judge_verdict     |-> Get(ref, "judge_verdict", "UNKNOWN"),
      system_verdict    |-> Get(ref, "system_verdict", "ACCEPT"),
      is_self_reference |-> Get(ref, "is_self_reference", FALSE),
      is_duplicate      |-> Get(ref, "is_duplicate", FALSE) ]

\* lines 1324-1353: the loop, in list order
RECURSIVE ReferenceMap(_, _)
ReferenceMap(n, final) ==
    IF final = <<>> THEN <<>>
    ELSE (IF Get(Head(final), "system_verdict", NoneVal) = "REJECT"
          THEN <<>>
          ELSE <<SurfacedRef(n, Head(final))>>) \o ReferenceMap(n, Tail(final))

CountVerdict(map, accept) ==
    Cardinality({ k \in 1..Len(map) : (map[k].judge_verdict = "ACCEPT") = accept })

\* lines 1308-1370
FormatOutputV7(n, final) ==
    LET reference_map == ReferenceMap(n, final)
    IN [ reference_map |-> reference_map,
         warnings      |-> <<>>,
         stats         |-> [ total   |-> Len(reference_map),
                             valid   |-> CountVerdict(reference_map, TRUE),
                             invalid |-> CountVerdict(reference_map, FALSE) ] ]

\* lines 1299-1306
EmptyResult ==
    [ reference_map |-> <<>>, warnings |-> <<>>, stats |-> [ total |-> 0 ] ]

\* lines 152-162: the run-level error result
ErrorResult(msg) ==
    [ reference_map |-> <<>>, warnings |-> <<"ERROR">>, stats |-> [ error |-> msg ] ]

NoResult == [ pending |-> TRUE ]

-----------------------------------------------------------------------------
(* Batches and batch tasks *)

ScanBatchSize == 5
MapperBatchSize == 20
JudgeBatchSize == 3
MapperPoolSize == 5

\* NumBatches with the last, shorter batch left out
NumBatches_Floor(len, size) == len \div size

NumBatches(len, size) == (len + size - 1) \div size

\* [lst[i:i + size] for i in range(0, len(lst), size)]
Batches(lst, size) ==
    [ b \in 1..NumBatches(Len(lst), size) |->
        SubSeq(lst, (b - 1) * size + 1,
               IF b * size < Len(lst) THEN b * size ELSE Len(lst)) ]

RECURSIVE ListsUpTo(_, _)
ListsUpTo(S, n) ==
    IF n = 0 THEN { <<>> }
    ELSE LET shorter == ListsUpTo(S, n - 1)
         IN shorter \cup { Append(l, x) : l \in { m \in shorter : Len(m) = n - 1 }, x \in S }

\* a batch task: st is its position, out what it returned, raised whether it
\* ended with an exception; failed records that its oracle call raised or that
\* its reply could not be parsed
NewTasks(k) ==
    [ b \in 1..k |-> [ st |-> "new", raised |-> FALSE, failed |-> FALSE,
                       out |-> <<>> ] ]

AllDone(tasks) == \A b \in 1..Len(tasks) : tasks[b].st = "done"

\* asyncio.gather raises what a task raised
AnyRaised(tasks) == \E b \in 1..Len(tasks) : tasks[b].raised

\* a cancelled task that treats the cancellation as a failure of its batch
TaskOnCancel_Swallow(task) ==
    IF task.st = "done" THEN task
    ELSE [ st |-> "done", raised |-> FALSE, failed |-> TRUE, out |-> <<>> ]

\* Flatten with the last batch first
RECURSIVE Flatten_LastFirst(_)
Flatten_LastFirst(tasks) ==
    IF tasks = <<>> THEN <<>>
    ELSE Flatten_LastFirst(Tail(tasks)) \o Head(tasks).out

RECURSIVE Flatten(_)
Flatten(tasks) ==
    IF tasks = <<>> THEN <<>> ELSE Head(tasks).out \o Flatten(Tail(tasks))

InFlight(tasks) == Cardinality({ b \in 1..Len(tasks) : tasks[b].st = "calling" })

\* oracle calls started and not yet returned, over the three stages
OracleCallsInFlight ==
    InFlight(scan_tasks) + InFlight(map_tasks) + InFlight(judge_tasks)

FailureReason(reply) ==
    IF reply.kind = "raise" THEN "oracle call failed" ELSE "response not usable"

-----------------------------------------------------------------------------
(* Stage 1: _scan_batches.process_batch *)

\* the oracle call raised, or parse_llm_json_as_list raised on the reply
ReplyFailed(model, reply) ==
    IF reply.kind = "raise" THEN TRUE ELSE ~ParseAsList(model, reply).ok

\* process_batch with the exception handler re-raising
ProcessBatch_Reraise(reply) ==
    IF ReplyFailed("ScannedReference", reply)
    THEN [ raised |-> TRUE, out |-> <<>> ]
    ELSE [ raised |-> FALSE, out |-> ParseAsList("ScannedReference", reply).items ]

\* lines 876-949: the references of one batch; every exception of the call or
\* of the parsing ends in `return []`
ProcessBatch(reply) ==
    IF reply.kind = "raise" THEN [ raised |-> FALSE, out |-> <<>> ]
    ELSE LET parsed == ParseAsList("ScannedReference", reply)
         IN [ raised |-> FALSE, out |-> IF parsed.ok THEN parsed.items ELSE <<>> ]

-----------------------------------------------------------------------------
(* Stage 2: _map_targets.process_mapper_batch *)

\* lines 1069-1080
MapperPlaceholder(ref, reason) ==
    [ source_id       |-> ref.source_id,
      source_header   |-> ref.source_header,
      source_verbatim |-> ref.source_verbatim,
      target_id       |-> NoneVal,
      is_valid        |-> FALSE,
      justification   |-> "Mapper failed: " \o reason,
      mapper_verdict  |-> "REJECT" ]

\* process_mapper_batch with the exception handler returning nothing
ProcessMapperBatch_Drop(batch_refs, reply) ==
    LET parsed == IF reply.kind = "raise" THEN Raised
                  ELSE ParseAsList("MappedReference", reply)
    IN IF parsed.ok THEN parsed.items ELSE <<>>

\* lines 1025-1080: what one chunk returns
ProcessMapperBatch(batch_refs, reply) ==
    LET parsed == IF reply.kind = "raise" THEN Raised
                  ELSE ParseAsList("MappedReference", reply)
    IN IF parsed.ok THEN parsed.items
       ELSE [ i \in 1..Len(batch_refs) |->
                MapperPlaceholder(batch_refs[i], FailureReason(reply)) ]

\* current_val as a share of 100 instead of 40
MapperProgress_Percent(completed, total) == 30 + ((completed * 100) \div total)

\* lines 1051-1056, 1063-1067: current_val
MapperProgress(completed, total) == 30 + ((completed * 40) \div total)

-----------------------------------------------------------------------------
(* Stage 3: _judge_references.judge_batch *)

\* lines 1205-1226
JudgedRecord(ref, validated) ==
    LET validation   == Get(validated, "validation", [ absent |-> TRUE ])
        is_valid     == Get(validation, "is_valid", FALSE)
        judge_reason == Get(validation, "reason", "")
    IN [ source_id         |-> ref.source_id,
         source_header     |-> ref.source_header,
         source_verbatim   |-> ref.source_verbatim,
         target_id         |-> ref.target_id,
         mapper_verdict    |-> IF ref.is_valid THEN "ACCEPT" ELSE "REJECT",
         judge_verdict     |-> IF is_valid THEN "ACCEPT" ELSE "REJECT",
         reasoning         |-> IF judge_reason # "" THEN judge_reason
                               ELSE ref.justification,
         is_valid          |-> is_valid,
         is_self_reference |-> Get(validation, "is_self_reference", FALSE) ]

\* lines 1238-1251
JudgeErrorRecord(ref, reason) ==
    [ source_id         |-> ref.source_id,
      source_header     |-> ref.source_header,
      source_verbatim   |-> ref.source_verbatim,
      target_id         |-> ref.target_id,
      mapper_verdict    |-> IF ref.is_valid THEN "ACCEPT" ELSE "REJECT",
      judge_verdict     |-> "ERROR",
      reasoning         |-> "Judge failed: " \o reason,
      is_valid          |-> FALSE,
      is_self_reference |-> FALSE ]

\* lines 1204-1226: zip(batch, validated_list) stops at the shorter list
ZipJudged(batch, validated_list) ==
    LET k == IF Len(batch) < Len(validated_list) THEN Len(batch)
             ELSE Len(validated_list)
    IN [ i \in 1..k |-> JudgedRecord(batch[i], validated_list[i]) ]

\* the reply is no dict, or one of its verdicts is no dict
JudgeReplyFailed(reply) ==
    ~ /\ reply.kind = "dict"
      /\ \A i \in 1..Len(reply.validated) : IsObject(reply.validated[i])

\* judge_batch with the exception handler returning nothing
JudgeBatch_Drop(batch, reply) ==
    IF JudgeReplyFailed(reply) THEN <<>> ELSE ZipJudged(batch, reply.validated)

\* lines 1190-1251: the reply is usable when it is a dict (its
\* "validated_references", default [], in reply.validated) all of whose
\* verdicts are dicts; anything else raises inside the try
JudgeBatch(batch, reply) ==
    IF JudgeReplyFailed(reply)
    THEN [ i \in 1..Len(batch) |-> JudgeErrorRecord(batch[i], FailureReason(reply)) ]
    ELSE ZipJudged(batch, reply.validated)

-----------------------------------------------------------------------------
(* The oracle: every reply within the bounds *)

MaxRefs == 2       \* the lists the oracle universes enumerate are no longer
SmallDoc == 11     \* sections of the small document
NumSections == 26  \* sections of the large document

DocSizes == {0, SmallDoc, NumSections}

RaiseReply == [ kind |-> "raise" ]
NoJsonReply == [ kind |-> "none" ]

\* Scanner items for batch b: a well-formed reference of the batch's first
\* section (with blanks that clean_verbatim removes), and malformed items
ScanItemOk(b) ==
    [ source_id       |-> Batches(SourceDocuments(n_sections), ScanBatchSize)[b][1],
      source_header   |-> "h",
      source_verbatim |-> <<" ", "a">> ]

ScanItems(b) ==
    { ScanItemOk(b),
      [ ScanItemOk(b) EXCEPT !.source_id = " " ],
      [ ScanItemOk(b) EXCEPT !.source_verbatim = <<" ">> ],
      [ source_id |-> NoneVal, source_header |-> "h" ],
      NonObject }

ScanReplies(b) ==
    { RaiseReply, NoJsonReply, [ kind |-> "list", items |-> <<>> ],
      [ kind |-> "wrapped", items |-> <<ScanItemOk(b)>> ],
      [ kind |-> "object", item |-> ScanItemOk(b) ] }
    \cup { [ kind |-> "list", items |-> <<x>> ] : x \in ScanItems(b) }
    \cup { [ kind |-> "list", items |-> <<x, y>> ] :
             x \in ScanItems(b), y \in ScanItems(b) \ {ScanItemOk(b)} }

\* Mapper items: the p-th item repeats the source fields of a reference of
\* the chunk and carries the oracle's target (none, empty, the CONTENT section
\* s1 or the INFO section s2), verdict and justification
MapTargets == { NoneVal, "", SectionId(1), SectionId(2) }

MapItem(ref, target_id, is_valid, justification) ==
    [ source_id       |-> ref.source_id,
      source_header   |-> ref.source_header,
      source_verbatim |-> ref.source_verbatim,
      target_id       |-> target_id,
      is_valid        |-> is_valid,
      justification   |-> justification ]

MapItems(ref) ==
    { MapItem(ref, t, v, "resolved by header") : t \in MapTargets, v \in BOOLEAN }
    \cup { MapItem(ref, "s1", TRUE, "no"), NonObject }

Min(a, b) == IF a < b THEN a ELSE b

\* item lists of length k whose p-th item answers reference min(p, Len(chunk))
RECURSIVE MapItemLists(_, _)
MapItemLists(chunk, k) ==
    IF k = 0 THEN { <<>> }
    ELSE { Append(l, x) : l \in MapItemLists(chunk, k - 1),
                          x \in MapItems(chunk[Min(k, Len(chunk))]) }

\* a reply that answers the references of a chunk of two in reverse order
ReorderedReplies(chunk) ==
    IF Len(chunk) < 2 THEN {}
    ELSE { [ kind  |-> "list",
             items |-> << MapItem(chunk[2], SectionId(1), TRUE, "resolved by header"),
                          MapItem(chunk[1], SectionId(1), TRUE, "resolved by header") >> ] }

\* a reply that answers the first reference of the chunk once more than a
\* judge batch holds, so that the Judge has a second batch
LongReply(chunk) ==
    [ kind  |-> "list",
      items |-> [ i \in 1..(JudgeBatchSize + 1) |->
                    MapItem(chunk[1], SectionId(1), TRUE, "resolved by header") ] ]

\* the item lists are enumerated for the chunks of at most MaxRefs
\* references; a longer chunk gets the first three replies only
MapReplies(chunk) ==
    { RaiseReply, NoJsonReply, LongReply(chunk) }
    \cup (IF Len(chunk) > MaxRefs THEN {}
          ELSE ReorderedReplies(chunk)
               \cup { [ kind |-> "list", items |-> l ] :
                        l \in UNION { MapItemLists(chunk, k) :
                                        k \in 0..Min(Len(chunk) + 1, MaxRefs) } })

\* Judge verdicts
Verdicts ==
    { [ validation |-> [ is_valid |-> TRUE, reason |-> "ok",
                         is_self_reference |-> FALSE ] ],
      [ validation |-> [ is_valid |-> FALSE, reason |-> "no",
                         is_self_reference |-> FALSE ] ],
      [ validation |-> [ is_valid |-> TRUE, reason |-> "",
                         is_self_reference |-> TRUE ] ],
      [ other |-> TRUE ],
      NonObject }

\* the reply that accepts every reference of the batch
AcceptAll(batch) ==
    [ kind      |-> "dict",
      validated |-> [ i \in 1..Len(batch) |->
                        [ validation |-> [ is_valid |-> TRUE, reason |-> "ok",
                                           is_self_reference |-> FALSE ] ] ] ]

JudgeReplies(batch) ==
    { RaiseReply, NoJsonReply, [ kind |-> "list", items |-> <<>> ], AcceptAll(batch) }
    \cup { [ kind |-> "dict", validated |-> l ] :
             l \in ListsUpTo(Verdicts, Min(Len(batch) + 1, MaxRefs)) }

-----------------------------------------------------------------------------
(* extract_references: one run *)

PVIdle ==
    /\ pv_pc = "in"
    /\ validated_refs = <<>>
    /\ validated_mut = <<>>
    /\ final_refs = <<>>
    /\ protocol_stats = PVInit(<<>>).stats
    /\ final_refs2 = <<>>

NoArgs == [ item_model |-> NoneVal ]

ParseIdle ==
    /\ parse_args = NoArgs
    /\ parse_result = NoResult

JsonIdle ==
    /\ response_text = <<>>
    /\ json_result = NoResult

RetryIdle ==
    /\ retry_pc = "off"
    /\ max_retries = 0
    /\ attempt = 0
    /\ worker_calls = 0
    /\ worker_data = NoResult
    /\ retry_result = NoResult

Init ==
    /\ PVIdle
    /\ ParseIdle
    /\ JsonIdle
    /\ RetryIdle
    /\ cancelled = FALSE
    /\ pc = "start"
    /\ doc_ok \in BOOLEAN
    /\ n_sections \in DocSizes
    /\ scan_tasks = <<>>
    /\ map_tasks = <<>>
    /\ judge_tasks = <<>>
    /\ scanned_refs = <<>>
    /\ mapped_refs = <<>>
    /\ sem = MapperPoolSize
    /\ completed_chunks = 0
    /\ progress = <<>>
    /\ result = NoResult

\* lines 91-104 and 832-956: input preparation, then one process_batch task
\* per batch of sections; a document that is no list of dicts makes
\* _prepare_inputs_v7 raise, which ends the run with the error result
Prepare ==
    /\ pc = "start"
    /\ IF doc_ok
       THEN /\ progress' = <<5, 10>>
            /\ scan_tasks' =
                 NewTasks(Len(Batches(SourceDocuments(n_sections), ScanBatchSize)))
            /\ pc' = "scan"
            /\ UNCHANGED result
       ELSE /\ progress' = <<5>>
            /\ result' = ErrorResult("input preparation failed")
            /\ pc' = "done"
            /\ UNCHANGED scan_tasks
    /\ UNCHANGED <<parseVars, jsonVars, retryVars, cancelled, pvVars, doc_ok, n_sections, map_tasks, judge_tasks,
                   scanned_refs, mapped_refs, sem, completed_chunks>>

\* lines 858-882: a scanner task runs up to its oracle call
ScanCall(b) ==
    /\ pc = "scan"
    /\ scan_tasks[b].st = "new"
    /\ scan_tasks' = [scan_tasks EXCEPT ![b].st = "calling"]
    /\ UNCHANGED <<parseVars, jsonVars, retryVars, cancelled, pvVars, pc, doc_ok, n_sections, map_tasks, judge_tasks,
                   scanned_refs, mapped_refs, sem, completed_chunks, progress,
                   result>>

\* lines 882-949: the oracle call of a scanner task returns or raises
ScanReturn(b) ==
    /\ pc = "scan"
    /\ scan_tasks[b].st = "calling"
    /\ \E reply \in ScanReplies(b) :
          LET r == ProcessBatch(reply)
          IN /\ Len(Flatten(scan_tasks)) + Len(r.out) <= MaxRefs
             /\ scan_tasks' = [scan_tasks EXCEPT
                                 ![b] = [ st |-> "done", raised |-> r.raised,
                                          failed |-> ReplyFailed("ScannedReference", reply),
                                          out |-> r.out ]]
    /\ UNCHANGED <<parseVars, jsonVars, retryVars, cancelled, pvVars, pc, doc_ok, n_sections, map_tasks, judge_tasks,
                   scanned_refs, mapped_refs, sem, completed_chunks, progress,
                   result>>

\* lines 956-964, 117-121 and 985-1087: gather returns, the results are
\* flattened in batch order and _scan_batches returns (its tasks are gone);
\* no reference ends the run with the empty result, otherwise the mapper
\* tasks are created
ScanGather ==
    /\ pc = "scan"
    /\ AllDone(scan_tasks)
    /\ IF AnyRaised(scan_tasks)
       THEN /\ result' = ErrorResult("scanner task raised")
            /\ pc' = "done"
            /\ UNCHANGED <<scanned_refs, map_tasks, progress>>
       ELSE /\ scanned_refs' = Flatten(scan_tasks)
            /\ progress' = Append(progress, 30)
            /\ IF scanned_refs' = <<>>
               THEN /\ result' = EmptyResult
                    /\ pc' = "done"
                    /\ UNCHANGED map_tasks
               ELSE /\ map_tasks' =
                         NewTasks(Len(Batches(scanned_refs', MapperBatchSize)))
                    /\ pc' = "map"
                    /\ UNCHANGED result
    /\ scan_tasks' = <<>>
    /\ sem' = MapperPoolSize
    /\ completed_chunks' = 0
    /\ UNCHANGED <<parseVars, jsonVars, retryVars, cancelled, pvVars, doc_ok, n_sections, judge_tasks, mapped_refs>>

\* lines 1017-1031: a mapper task takes a slot of the semaphore and runs up to
\* its oracle call
MapCall(c) ==
    /\ pc = "map"
    /\ map_tasks[c].st = "new"
    /\ sem > 0
    /\ sem' = sem - 1
    /\ map_tasks' = [map_tasks EXCEPT ![c].st = "calling"]
    /\ UNCHANGED <<parseVars, jsonVars, retryVars, cancelled, pvVars, pc, doc_ok, n_sections, scan_tasks, judge_tasks,
                   scanned_refs, mapped_refs, completed_chunks, progress, result>>

\* lines 1026-1080: the oracle call of a mapper task returns or raises; the
\* progress counter is advanced and the slot released
MapReturn(c) ==
    /\ pc = "map"
    /\ map_tasks[c].st = "calling"
    /\ \E reply \in MapReplies(Batches(scanned_refs, MapperBatchSize)[c]) :
          map_tasks' = [map_tasks EXCEPT
              ![c] = [ st |-> "done", raised |-> FALSE,
                       failed |-> ReplyFailed("MappedReference", reply),
                       out |-> ProcessMapperBatch(
                                  Batches(scanned_refs, MapperBatchSize)[c], reply) ]]
    /\ completed_chunks' = completed_chunks + 1
    /\ progress' = Append(progress,
                          MapperProgress(completed_chunks', Len(map_tasks)))
    /\ sem' = sem + 1
    /\ UNCHANGED <<parseVars, jsonVars, retryVars, cancelled, pvVars, pc, doc_ok, n_sections, scan_tasks, judge_tasks,
                   scanned_refs, mapped_refs, result>>

\* lines 1087-1109, 136-162 and 1126-1255: gather returns and the results are
\* flattened in chunk order; _judge_references returns [] for an empty list,
\* and extract_references then fails on result['stats'] (after reporting
\* 100) and returns the error result; otherwise the judge tasks are created
MapGather ==
    /\ pc = "map"
    /\ AllDone(map_tasks)
    /\ mapped_refs' = Flatten(map_tasks)
    /\ IF mapped_refs' = <<>>
       THEN /\ progress' = Append(progress, 100)
            /\ result' = ErrorResult("list indices must be integers")
            /\ pc' = "done"
            /\ UNCHANGED judge_tasks
       ELSE /\ judge_tasks' =
                 NewTasks(Len(Batches(mapped_refs', JudgeBatchSize)))
            /\ pc' = "judge"
            /\ UNCHANGED <<progress, result>>
    /\ map_tasks' = <<>>
    /\ UNCHANGED <<parseVars, jsonVars, retryVars, cancelled, pvVars, doc_ok, n_sections, scan_tasks, scanned_refs, sem,
                   completed_chunks>>

\* lines 1152-1196: a judge task runs up to its oracle call
JudgeCall(b) ==
    /\ pc = "judge"
    /\ judge_tasks[b].st = "new"
    /\ judge_tasks' = [judge_tasks EXCEPT ![b].st = "calling"]
    /\ UNCHANGED <<parseVars, jsonVars, retryVars, cancelled, pvVars, pc, doc_ok, n_sections, scan_tasks, map_tasks,
                   scanned_refs, mapped_refs, sem, completed_chunks, progress,
                   result>>

\* lines 1190-1251: the oracle call of a judge task returns or raises
JudgeReturn(b) ==
    /\ pc = "judge"
    /\ judge_tasks[b].st = "calling"
    /\ \E reply \in JudgeReplies(Batches(mapped_refs, JudgeBatchSize)[b]) :
          judge_tasks' = [judge_tasks EXCEPT
              ![b] = [ st |-> "done", raised |-> FALSE,
                       failed |-> JudgeReplyFailed(reply),
                       out |-> JudgeBatch(
                                  Batches(mapped_refs, JudgeBatchSize)[b], reply) ]]
    /\ UNCHANGED <<parseVars, jsonVars, retryVars, cancelled, pvVars, pc, doc_ok, n_sections, scan_tasks, map_tasks,
                   scanned_refs, mapped_refs, sem, completed_chunks, progress,
                   result>>

\* lines 1255-1297 and 143-150: gather returns, then the validator and the
\* formatter run and extract_references returns their result
JudgeGather ==
    /\ pc = "judge"
    /\ AllDone(judge_tasks)
    /\ LET all_judged == Flatten(judge_tasks)
           out        == ProtocolValidate(all_judged)
       IN /\ validated_refs' = all_judged
          /\ validated_mut' = out.input
          /\ final_refs' = out.final
          /\ protocol_stats' = out.stats
          /\ result' = FormatOutputV7(n_sections, out.final)
    /\ pv_pc' = "once"
    /\ progress' = Append(progress, 100)
    /\ pc' = "done"
    /\ judge_tasks' = <<>>
    /\ UNCHANGED <<parseVars, jsonVars, retryVars, cancelled, final_refs2, doc_ok, n_sections, scan_tasks,
                   map_tasks, scanned_refs, mapped_refs, sem, completed_chunks>>

\* asyncio.gather cancels the tasks it waits for: a task that has not
\* returned gets CancelledError at its await, which none of the handlers
\* (`except Exception`, lines 944, 1060, 1235, 1455) catches
TaskOnCancel(task) ==
    IF task.st = "done" THEN task ELSE [task EXCEPT !.st = "cancelled"]

CancelTasks(tasks) == [ b \in 1..Len(tasks) |-> TaskOnCancel(tasks[b]) ]

\* the task that awaits extract_references is cancelled while the run waits
\* in the gather of a stage (lines 956, 1087, 1255): the tasks of the stage
\* are cancelled, and CancelledError leaves extract_references past its
\* `except Exception` (line 152), so that nothing is returned
Cancel ==
    /\ pc \in {"scan", "map", "judge"}
    /\ ~AllDone(scan_tasks \o map_tasks \o judge_tasks)
    /\ cancelled' = TRUE
    /\ scan_tasks' = CancelTasks(scan_tasks)
    /\ map_tasks' = CancelTasks(map_tasks)
    /\ judge_tasks' = CancelTasks(judge_tasks)
    /\ pc' = "cancelled"
    /\ UNCHANGED <<parseVars, jsonVars, retryVars, pvVars, doc_ok, n_sections,
                   scanned_refs, mapped_refs, sem, completed_chunks, progress,
                   result>>

Next ==
    \/ Prepare
    \/ \E b \in 1..Len(scan_tasks) : ScanCall(b)
    \/ \E b \in 1..Len(scan_tasks) : ScanReturn(b)
    \/ ScanGather
    \/ \E c \in 1..Len(map_tasks) : MapCall(c)
    \/ \E c \in 1..Len(map_tasks) : MapReturn(c)
    \/ MapGather
    \/ \E b \in 1..Len(judge_tasks) : JudgeCall(b)
    \/ \E b \in 1..Len(judge_tasks) : JudgeReturn(b)
    \/ JudgeGather
    \/ Cancel

Spec == Init /\ [][Next]_vars

-----------------------------------------------------------------------------
(* The validator on its own: every list of judged records within the bounds *)

\* the dict judge_batch builds for one reference (lines 1211-1226, 1239-1249)
JudgedRef(sid, verbatim, tid, mv, jv, reason, self) ==
    [ source_id         |-> sid,
      source_header     |-> "h",
      source_verbatim   |-> verbatim,
      target_id         |-> tid,
      mapper_verdict    |-> mv,
      judge_verdict     |-> jv,
      reasoning         |-> reason,
      is_valid          |-> (jv = "ACCEPT"),
      is_self_reference |-> self ]

Verbatims == { <<"a">>, <<"A">>, <<"a", "b">>, <<"b">>, <<" ", "a">>, <<>> }

\* records of one source that differ in text, and in target (one of them the
\* source itself)
DedupRecords ==
    { JudgedRef("A", v, "B", "ACCEPT", "ACCEPT", "ok", FALSE) : v \in Verbatims }
    \cup
    { JudgedRef("A", v, "A", "ACCEPT", "ACCEPT", "ok", FALSE) :
        v \in { <<"a">>, <<"a", "b">> } }

\* records whose target is missing, null, empty or the sentinel
BrokenRecords ==
    { JudgedRef("A", <<"a">>, t, "REJECT", jv, "why", FALSE) :
        t \in {NoneVal, "", "UNKNOWN"}, jv \in {"ACCEPT", "REJECT", "ERROR"} }
    \cup
    { JudgedRef("A", <<"a">>, NoneVal, "REJECT", "ACCEPT", "", FALSE),
      [ source_id |-> "A", source_header |-> "h", source_verbatim |-> <<"a">>,
        mapper_verdict |-> "REJECT", judge_verdict |-> "ACCEPT",
        reasoning |-> "why", is_valid |-> TRUE, is_self_reference |-> FALSE ] }

\* records without a source, and records the Judge flagged as self-references
OtherRecords ==
    { JudgedRef(NoneVal, <<"a">>, "B", "ACCEPT", "ACCEPT", "ok", FALSE),
      JudgedRef("", <<"a">>, "B", "ACCEPT", "REJECT", "no", FALSE),
      JudgedRef("A", <<"a">>, "B", "ACCEPT", "ACCEPT", "ok", TRUE),
      JudgedRef("B", <<"a">>, "B", "REJECT", "REJECT", "no", FALSE) }

JudgedRecords == DedupRecords \cup BrokenRecords \cup OtherRecords

MaxRecords == 3

PipeIdle ==
    /\ pc = "off"
    /\ doc_ok = TRUE
    /\ n_sections = 0
    /\ scan_tasks = <<>>
    /\ map_tasks = <<>>
    /\ judge_tasks = <<>>
    /\ scanned_refs = <<>>
    /\ mapped_refs = <<>>
    /\ sem = MapperPoolSize
    /\ completed_chunks = 0
    /\ progress = <<>>
    /\ result = NoResult
    /\ cancelled = FALSE

PVHarnessInit ==
    /\ PipeIdle
    /\ ParseIdle
    /\ JsonIdle
    /\ RetryIdle
    /\ pv_pc = "in"
    /\ validated_refs \in ListsUpTo(JudgedRecords, MaxRecords)
    /\ validated_mut = <<>>
    /\ final_refs = <<>>
    /\ protocol_stats = PVInit(<<>>).stats
    /\ final_refs2 = <<>>

\* final_refs, warnings, protocol_stats = self._protocol_validate(all_judged, ...)
Validate ==
    /\ pv_pc = "in"
    /\ LET out == ProtocolValidate(validated_refs)
       IN /\ final_refs' = out.final
          /\ protocol_stats' = out.stats
          /\ validated_mut' = out.input
    /\ pv_pc' = "once"
    /\ UNCHANGED <<validated_refs, final_refs2, pipeVars, parseVars, jsonVars,
                   retryVars>>

\* _protocol_validate applied to the list it returned
Revalidate ==
    /\ pv_pc = "once"
    /\ LET out == ProtocolValidate(final_refs)
       IN /\ final_refs2' = out.final
          /\ protocol_stats' = out.stats
    /\ pv_pc' = "twice"
    /\ UNCHANGED <<validated_refs, validated_mut, final_refs, pipeVars, parseVars,
                   jsonVars, retryVars>>

PVNext == Validate \/ Revalidate

SpecPV == PVHarnessInit /\ [][PVNext]_vars

-----------------------------------------------------------------------------
(* The list parser on its own: every reply within the bounds, for both item *)
(* models                                                                   *)

ScannedShaped(sid, header, verbatim) ==
    [ source_id |-> sid, source_header |-> header, source_verbatim |-> verbatim ]

\* items offered to ScannedReference: two well-formed ones, then an empty
\* source_id, a null header, a blank verbatim, a missing verbatim and an
\* element that is no object
ScannedCandidates ==
    { ScannedShaped("s1", "h", <<"a">>),
      ScannedShaped("s2", "h", <<"a", " ", " ", "b">>),
      ScannedShaped(" ", "h", <<"a">>),
      ScannedShaped("s1", NoneVal, <<"a">>),
      ScannedShaped("s1", "h", <<" ">>),
      [ source_id |-> "s1", source_header |-> "h" ],
      NonObject }

\* items offered to MappedReference: two well-formed ones, then a valid item
\* without target, a justification that is too short and an element that is
\* no object
MappedCandidates ==
    { MapItem(ScannedShaped("s1", "h", <<"a">>), "s1", TRUE, "resolved by header"),
      MapItem(ScannedShaped("s1", "h", <<"a">>), NoneVal, FALSE, "no such section"),
      MapItem(ScannedShaped("s1", "h", <<"a">>), NoneVal, TRUE, "resolved by header"),
      MapItem(ScannedShaped("s1", "h", <<"a">>), "s1", TRUE, "no"),
      NonObject }

Candidates(model) ==
    IF model = "ScannedReference" THEN ScannedCandidates ELSE MappedCandidates

MaxItems == 3

ParseReplies(model) ==
    { NoJsonReply }
    \cup { [ kind |-> "list", items |-> l ] : l \in ListsUpTo(Candidates(model), MaxItems) }
    \cup { [ kind |-> "wrapped", items |-> l ] : l \in ListsUpTo(Candidates(model), 1) }
    \cup { [ kind |-> "object", item |-> x ] : x \in Candidates(model) \ {NonObject} }

ParseInit ==
    /\ PVIdle
    /\ PipeIdle
    /\ JsonIdle
    /\ RetryIdle
    /\ parse_args \in
         UNION { { [ item_model |-> model, data |-> reply ] :
                     reply \in ParseReplies(model) } :
                 model \in {"ScannedReference", "MappedReference"} }
    /\ parse_result = NoResult

\* parse_llm_json_as_list(response_text, item_model)
ParseCall ==
    /\ parse_result = NoResult
    /\ parse_result' = ParseAsList(parse_args.item_model, parse_args.data)
    /\ UNCHANGED <<parse_args, pvVars, pipeVars, jsonVars, retryVars>>

SpecParse == ParseInit /\ [][ParseCall]_vars

-----------------------------------------------------------------------------
(* The Mapper stage on its own, with up to six chunks, so that more chunks
   than the semaphore has slots are waiting *)

\* numbers of scanned references: 1, 2, 3 and 6 chunks of MapperBatchSize
MapperLoads ==
    { 1, MapperBatchSize + 1, 2 * MapperBatchSize + 1, 5 * MapperBatchSize + 1 }

\* a reference as the Scanner returns it
ScannedOk ==
    [ source_id |-> SectionId(1), source_header |-> "h", source_verbatim |-> <<"a">> ]

\* lines 966-1015 and 92-117: _map_targets is entered with the scanned
\* references, after the progress values 5, 10 and 30 were reported
MapInit ==
    /\ PVIdle
    /\ ParseIdle
    /\ JsonIdle
    /\ RetryIdle
    /\ cancelled = FALSE
    /\ pc = "map"
    /\ doc_ok = TRUE
    /\ n_sections = NumSections
    /\ scan_tasks = <<>>
    /\ judge_tasks = <<>>
    /\ scanned_refs \in { [ i \in 1..n |-> ScannedOk ] : n \in MapperLoads }
    /\ map_tasks = NewTasks(Len(Batches(scanned_refs, MapperBatchSize)))
    /\ mapped_refs = <<>>
    /\ sem = MapperPoolSize
    /\ completed_chunks = 0
    /\ progress = <<5, 10, 30>>
    /\ result = NoResult

MapNext ==
    \/ \E c \in 1..Len(map_tasks) : MapCall(c)
    \/ \E c \in 1..Len(map_tasks) : MapReturn(c)
    \/ MapGather

SpecMap == MapInit /\ [][MapNext]_vars

-----------------------------------------------------------------------------
(* contract_pipeline.py: the worker-judge loop _execute_task_with_retry *)

MaxRetries == 3
MaxCalls == 6

\* what _parse_json returns: None, a dict or a list
JNone == [ json |-> "none" ]
JDict(fields) == [ json |-> "dict", fields |-> fields ]
JList == [ json |-> "list", length |-> 1 ]

\* `not data` for a parsed value
NotData(data) ==
    \/ data.json = "none"
    \/ data.json = "dict" /\ DOMAIN data.fields = {}
    \/ data.json = "list" /\ data.length = 0

\* a or b
PyOr(a, b) == IF Falsy(a) THEN b ELSE a

\* lines 711-713
VerifierDecision(judge_data) ==
    IF judge_data.json = "dict"
    THEN PyOr(PyOr(Get(judge_data.fields, "verdict", NoneVal),
                   Get(judge_data.fields, "decision", NoneVal)),
              "REJECT")
    ELSE "REJECT"

\* the parsed replies of the worker: no JSON, the "{}" that _call_llm
\* returns when the call failed, an extraction, a list
WorkerData ==
    { JNone, JDict(<<>>), JDict([ reference_map |-> "refs" ]), JList }

\* the parsed replies of the judge
JudgeData ==
    { JNone, JList, JDict(<<>>),
      JDict([ verdict |-> "ACCEPT" ]),
      JDict([ verdict |-> "REJECT" ]),
      JDict([ decision |-> "ACCEPT" ]),
      JDict([ verdict |-> "", decision |-> "REJECT" ]),
      JDict([ verdict |-> "PARTIAL" ]),
      JDict([ verdict |-> "accept" ]) }

\* lines 632-639
RetryInit ==
    /\ PVIdle
    /\ PipeIdle
    /\ ParseIdle
    /\ JsonIdle
    /\ retry_pc = "loop"
    /\ max_retries \in 0..MaxRetries
    /\ attempt = 0
    /\ worker_calls = 0
    /\ worker_data = NoResult
    /\ retry_result = NoResult

\* lines 641-658: the loop test holds, the worker is called and its reply
\* parsed; without data the function returns None
RunWorker ==
    /\ retry_pc = "loop"
    /\ attempt <= max_retries
    /\ worker_calls < MaxCalls
    /\ worker_calls' = worker_calls + 1
    /\ \E data \in WorkerData :
          /\ worker_data' = data
          /\ IF NotData(data)
             THEN retry_result' = JNone /\ retry_pc' = "returned"
             ELSE retry_pc' = "judge" /\ UNCHANGED retry_result
    /\ UNCHANGED <<max_retries, attempt, pvVars, pipeVars, parseVars, jsonVars>>

\* lines 660-790: the judge is called and its verdict read; REJECT counts an
\* attempt, ACCEPT returns the data, and any other verdict goes back to the
\* loop test with the counter as it was
RunJudge ==
    /\ retry_pc = "judge"
    /\ \E judge_data \in JudgeData :
          LET verifier_decision == VerifierDecision(judge_data)
          IN IF verifier_decision = "REJECT"
             THEN /\ attempt' = attempt + 1
                  /\ retry_pc' = "loop"
                  /\ UNCHANGED retry_result
             ELSE IF verifier_decision = "ACCEPT"
             THEN /\ retry_result' = worker_data
                  /\ retry_pc' = "returned"
                  /\ UNCHANGED attempt
             ELSE /\ retry_pc' = "loop"
                  /\ UNCHANGED <<attempt, retry_result>>
    /\ UNCHANGED <<max_retries, worker_calls, worker_data, pvVars, pipeVars,
                   parseVars, jsonVars>>

\* lines 792-817: the loop test fails and the rejected data is returned
Exhausted ==
    /\ retry_pc = "loop"
    /\ attempt > max_retries
    /\ retry_result' = worker_data
    /\ retry_pc' = "returned"
    /\ UNCHANGED <<max_retries, attempt, worker_calls, worker_data, pvVars,
                   pipeVars, parseVars, jsonVars>>

RetryNext == RunWorker \/ RunJudge \/ Exhausted

SpecRetry == RetryInit /\ [][RetryNext]_vars

-----------------------------------------------------------------------------
(* utils/llm_parser.py: parse_llm_json on the characters of the text.  A text
   is a sequence of one-character strings.  json.loads is modelled on the
   characters that occur in the texts below: strings with their escapes,
   unsigned integers, lists and objects; over these characters two values
   are equal exactly when their texts without insignificant blanks are. *)

Quote == "\""
Backslash == "\\"
\* the backquote, written as an apostrophe here
Backquote == "'"
Fence == <<Backquote, Backquote, Backquote>>
Digits == {"0", "1", "2", "3", "4", "5", "6", "7", "8", "9"}
HexDigits == Digits \cup {"a", "b", "c", "d", "e", "f", "A", "B", "C", "D", "E", "F"}
SimpleEscapes == {Quote, Backslash, "/", "b", "f", "n", "r", "t"}

\* str.find(pat, start) with 1-based positions: 0 when pat does not occur
Find(text, pat, start) ==
    LET hits == { i \in start..(Len(text) - Len(pat) + 1) :
                    SubSeq(text, i, i + Len(pat) - 1) = pat }
    IN IF hits = {} THEN 0 ELSE CHOOSE i \in hits : \A j \in hits : i <= j

\* lines 46-67: a \u that is not followed by four hex digits gets its
\* backslash doubled
RECURSIVE SanitizeFrom(_, _)
SanitizeFrom(text, i) ==
    IF i > Len(text) THEN <<>>
    ELSE IF i < Len(text) /\ text[i] = Backslash /\ text[i + 1] = "u"
    THEN IF i + 5 <= Len(text) /\ \A k \in (i + 2)..(i + 5) : text[k] \in HexDigits
         THEN SubSeq(text, i, i + 5) \o SanitizeFrom(text, i + 6)
         ELSE <<Backslash, Backslash, "u">> \o SanitizeFrom(text, i + 2)
    ELSE <<text[i]>> \o SanitizeFrom(text, i + 1)

SanitizeJson(text) == SanitizeFrom(text, 1)

RECURSIVE SkipWs(_, _)
SkipWs(t, i) == IF i <= Len(t) /\ IsSpace(t[i]) THEN SkipWs(t, i + 1) ELSE i

\* the position after the string whose opening quote is at i - 1; 0 when
\* the string does not end or has an invalid escape
RECURSIVE StringEnd(_, _)
StringEnd(t, i) ==
    IF i > Len(t) THEN 0
    ELSE IF t[i] = Quote THEN i + 1
    ELSE IF t[i] = Backslash
    THEN IF i + 1 > Len(t) THEN 0
         ELSE IF t[i + 1] \in SimpleEscapes THEN StringEnd(t, i + 2)
         ELSE IF /\ t[i + 1] = "u"
                 /\ i + 5 <= Len(t)
                 /\ \A k \in (i + 2)..(i + 5) : t[k] \in HexDigits
              THEN StringEnd(t, i + 6)
         ELSE 0
    ELSE StringEnd(t, i + 1)

RECURSIVE DigitsEnd(_, _)
DigitsEnd(t, i) == IF i <= Len(t) /\ t[i] \in Digits THEN DigitsEnd(t, i + 1) ELSE i

\* the position after the integer at i (0, or a digit run that does not
\* start with 0); 0 when there is no digit
NumberEnd(t, i) ==
    IF i > Len(t) \/ t[i] \notin Digits THEN 0
    ELSE IF t[i] = "0" THEN i + 1
    ELSE DigitsEnd(t, i)

\* the position after the JSON value that starts at i; 0 when there is none
RECURSIVE ValueEnd(_, _)
RECURSIVE ElementsEnd(_, _)
RECURSIVE MembersEnd(_, _)
ValueEnd(t, i) ==
    IF i > Len(t) THEN 0
    ELSE IF t[i] = Quote THEN StringEnd(t, i + 1)
    ELSE IF t[i] = "["
    THEN LET j == SkipWs(t, i + 1)
         IN IF j <= Len(t) /\ t[j] = "]" THEN j + 1 ELSE ElementsEnd(t, j)
    ELSE IF t[i] = "{"
    THEN LET j == SkipWs(t, i + 1)
         IN IF j <= Len(t) /\ t[j] = "}" THEN j + 1 ELSE MembersEnd(t, j)
    ELSE NumberEnd(t, i)

ElementsEnd(t, i) ==
    LET e == ValueEnd(t, i)
        j == SkipWs(t, e)
    IN IF e = 0 THEN 0
       ELSE IF j > Len(t) THEN 0
       ELSE IF t[j] = "]" THEN j + 1
       ELSE IF t[j] = "," THEN ElementsEnd(t, SkipWs(t, j + 1))
       ELSE 0

MembersEnd(t, i) ==
    IF i > Len(t) \/ t[i] # Quote THEN 0
    ELSE LET k == StringEnd(t, i + 1)
             c == SkipWs(t, k)
             v == ValueEnd(t, SkipWs(t, c + 1))
             j == SkipWs(t, v)
         IN IF k = 0 THEN 0
            ELSE IF c > Len(t) \/ t[c] # ":" THEN 0
            ELSE IF v = 0 THEN 0
            ELSE IF j > Len(t) THEN 0
            ELSE IF t[j] = "}" THEN j + 1
            ELSE IF t[j] = "," THEN MembersEnd(t, SkipWs(t, j + 1))
            ELSE 0

\* json.loads accepts the text: one value, blanks around it, nothing else
JsonValid(t) ==
    LET e == ValueEnd(t, SkipWs(t, 1))
    IN e # 0 /\ SkipWs(t, e) = Len(t) + 1

\* the text of a value without the blanks outside its strings
RECURSIVE CompactFrom(_, _, _)
CompactFrom(t, i, in_string) ==
    IF i > Len(t) THEN <<>>
    ELSE IF in_string /\ t[i] = Backslash
    THEN SubSeq(t, i, i + 1) \o CompactFrom(t, i + 2, TRUE)
    ELSE IF t[i] = Quote THEN <<Quote>> \o CompactFrom(t, i + 1, ~in_string)
    ELSE IF ~in_string /\ IsSpace(t[i]) THEN CompactFrom(t, i + 1, FALSE)
    ELSE <<t[i]>> \o CompactFrom(t, i + 1, in_string)

JsonError == [ kind |-> "error" ]

\* json.loads(text, strict=False): the value, or JSONDecodeError
JsonLoads(t) ==
    IF JsonValid(t) THEN [ kind |-> "value", value |-> CompactFrom(t, 1, FALSE) ]
    ELSE JsonError

\* the function returned None
JsonNone == [ kind |-> "none" ]

\* lines 106-113 and 129-142: the first "[" or "{" at or after start
FirstOpen(text, start) ==
    LET open_bracket == Find(text, <<"[">>, start)
        open_brace   == Find(text, <<"{">>, start)
    IN IF open_bracket # 0 /\ (open_brace = 0 \/ open_bracket < open_brace)
       THEN open_bracket
       ELSE open_brace

\* lines 100-125: from the first "[" or "{" after the first fence up to the
\* next fence
MarkdownBlock(text) ==
    LET code_block_start == Find(text, Fence, 1)
        json_start       == FirstOpen(text, code_block_start)
        code_block_end   == Find(text, Fence, json_start)
    IN IF code_block_start = 0 THEN JsonError
       ELSE IF json_start = 0 THEN JsonError
       ELSE IF code_block_end = 0 THEN JsonError
       ELSE JsonLoads(Strip(SubSeq(text, json_start, code_block_end - 1)))

\* lines 145-178: the position where the count of start_char and end_char
\* outside strings returns to 0; 0 when it does not
RECURSIVE StructureEnd(_, _, _, _, _, _)
StructureEnd(text, i, counter, in_string, escape_next, start_char) ==
    IF i > Len(text) THEN 0
    ELSE IF escape_next
    THEN StructureEnd(text, i + 1, counter, in_string, FALSE, start_char)
    ELSE IF text[i] = Backslash
    THEN StructureEnd(text, i + 1, counter, in_string, TRUE, start_char)
    ELSE IF text[i] = Quote
    THEN StructureEnd(text, i + 1, counter, ~in_string, FALSE, start_char)
    ELSE IF in_string
    THEN StructureEnd(text, i + 1, counter, in_string, FALSE, start_char)
    ELSE IF text[i] = start_char
    THEN StructureEnd(text, i + 1, counter + 1, in_string, FALSE, start_char)
    ELSE IF text[i] = (IF start_char = "[" THEN "]" ELSE "}")
    THEN IF counter - 1 = 0 THEN i
         ELSE StructureEnd(text, i + 1, counter - 1, in_string, FALSE, start_char)
    ELSE StructureEnd(text, i + 1, counter, in_string, FALSE, start_char)

\* lines 127-178: the structure that starts at the first "[" or "{" of the
\* text; the search ends there whether or not that structure is JSON
StructureCounting(text) ==
    LET start_index == FirstOpen(text, 1)
        end_index   == StructureEnd(text, start_index, 0, FALSE, FALSE,
                                    text[start_index])
    IN IF start_index = 0 THEN JsonError
       ELSE IF end_index = 0 THEN JsonError
       ELSE JsonLoads(SubSeq(text, start_index, end_index))

\* parse_llm_json(response_text)
ParseLlmJson(raw_text) ==
    IF raw_text = <<>> THEN JsonNone
    ELSE LET text    == SanitizeJson(Strip(raw_text))
             direct  == JsonLoads(text)
             block   == MarkdownBlock(text)
             counted == StructureCounting(text)
         IN IF direct.kind = "value" THEN direct
            ELSE IF block.kind = "value" THEN block
            ELSE IF counted.kind = "value" THEN counted
            ELSE JsonNone

-----------------------------------------------------------------------------
(* parse_llm_json on its own: every text of up to MaxTokens tokens *)

MaxTokens == 5

Tokens ==
    { Fence, <<"[">>, <<"]">>, <<"{">>, <<"}">>, <<Quote>>, <<Backslash>>,
      <<"u">>, <<" ">>, <<"1">> }

RECURSIVE Texts(_)
Texts(k) ==
    IF k = 0 THEN { <<>> }
    ELSE { t \o tok : t \in Texts(k - 1), tok \in Tokens }

JsonInit ==
    /\ PVIdle
    /\ PipeIdle
    /\ ParseIdle
    /\ RetryIdle
    /\ response_text \in UNION { Texts(k) : k \in 0..MaxTokens }
    /\ json_result = NoResult

\* data = parse_llm_json(response_text)
JsonCall ==
    /\ json_result = NoResult
    /\ json_result' = ParseLlmJson(response_text)
    /\ UNCHANGED <<response_text, pvVars, pipeVars, parseVars, retryVars>>

SpecJson == JsonInit /\ [][JsonCall]_vars

-----------------------------------------------------------------------------
(* Properties of the list parser *)

WellFormed(model, item) == IsObject(item) /\ ItemModel(model, item).ok

\* the instances of the well-formed items of a list, in the order of the list
RECURSIVE WellFormedValues(_, _)
WellFormedValues(model, data) ==
    IF data = <<>> THEN <<>>
    ELSE (IF WellFormed(model, Head(data))
          THEN <<ItemModel(model, Head(data)).value>> ELSE <<>>)
         \o WellFormedValues(model, Tail(data))

\* C18: when the reply is a list with at least one well-formed item, the
\* parser returns (it does not raise) exactly the well-formed items, in order:
\* the malformed ones, and only they, are discarded.
C18_WellFormedItemsKept ==
    ( /\ parse_result # NoResult
      /\ parse_args.data.kind = "list"
      /\ WellFormedValues(parse_args.item_model, parse_args.data.items) # <<>> )
    => /\ parse_result.ok
       /\ parse_result.items =
             WellFormedValues(parse_args.item_model, parse_args.data.items)

-----------------------------------------------------------------------------
(* Properties of the validator *)

Validated == pv_pc \in {"once", "twice"}

\* C1: every record the validator returns has system_verdict = REJECT exactly
\* when it has is_duplicate = true, and system_verdict = ACCEPT otherwise.
C1_RejectIffDuplicate ==
    Validated =>
        \A k \in 1..Len(final_refs) :
            /\ (final_refs[k].system_verdict = "REJECT") <=> final_refs[k].is_duplicate
            /\ ~final_refs[k].is_duplicate => final_refs[k].system_verdict = "ACCEPT"

\* the text the duplicate rule compares: lower-cased, surrounding blanks removed
NormText(v) == Strip(Lower(v))

SamePair(r, q) == r.source_id = q.source_id /\ r.target_id = q.target_id

\* C2 as stated: a returned record with a known target is marked is_duplicate
\* exactly when an earlier returned record of the same (source_id, target_id)
\* pair has a verbatim text that contains, or is contained in, its own.
C2_DuplicateIffRawOverlap ==
    Validated =>
        \A k \in 1..Len(final_refs) :
            final_refs[k].is_duplicate <=>
                /\ final_refs[k].target_id # "UNKNOWN"
                /\ \E j \in 1..(k - 1) :
                      /\ SamePair(final_refs[j], final_refs[k])
                      /\ \/ StrIn(final_refs[j].source_context, final_refs[k].source_context)
                         \/ StrIn(final_refs[k].source_context, final_refs[j].source_context)

\* C2 amended: the comparison is made on the lower-cased, stripped texts and
\* only when both are non-empty; the first record of a pair is never marked.
C2_DuplicateIffNormalisedOverlap ==
    Validated =>
        \A k \in 1..Len(final_refs) :
            final_refs[k].is_duplicate <=>
                /\ final_refs[k].target_id # "UNKNOWN"
                /\ \E j \in 1..(k - 1) :
                      /\ SamePair(final_refs[j], final_refs[k])
                      /\ NormText(final_refs[j].source_context) # <<>>
                      /\ NormText(final_refs[k].source_context) # <<>>
                      /\ \/ StrIn(NormText(final_refs[j].source_context),
                                  NormText(final_refs[k].source_context))
                         \/ StrIn(NormText(final_refs[k].source_context),
                                  NormText(final_refs[j].source_context))

\* C2 witness: (A->B, "a") then (A->B, "ab") with exactly the second marked
C2_Witness ==
    /\ pv_pc = "once"
    /\ Len(final_refs) = 2
    /\ final_refs[1].source_context = <<"a">>
    /\ final_refs[2].source_context = <<"a", "b">>
    /\ final_refs[1].target_id = "B" /\ final_refs[2].target_id = "B"
    /\ ~final_refs[1].is_duplicate
    /\ final_refs[2].is_duplicate

\* C3: every record the validator returns with target_id = "UNKNOWN" has
\* judge_verdict = "REJECT".
C3_UnknownImpliesReject ==
    Validated =>
        \A k \in 1..Len(final_refs) :
            final_refs[k].target_id = "UNKNOWN" => final_refs[k].judge_verdict = "REJECT"

FinalFields ==
    { "source_id", "source_header", "source_context", "target_id",
      "is_self_reference", "is_duplicate", "mapper_verdict", "judge_verdict",
      "system_verdict", "reasoning" }

\* C4: the validator applied to its own output returns a list of the same
\* length whose records agree with the first output in every field.
C4_Idempotent ==
    pv_pc = "twice" =>
        /\ Len(final_refs2) = Len(final_refs)
        /\ \A k \in 1..Len(final_refs) : \A f \in FinalFields :
              final_refs2[k][f] = final_refs[k][f]

\* C11: a returned record whose target_id is "UNKNOWN" (given so, or coerced
\* from a missing, null or empty target) is never marked is_duplicate.
C11_UnknownNeverDuplicate ==
    Validated =>
        \A k \in 1..Len(final_refs) :
            final_refs[k].target_id = "UNKNOWN" => ~final_refs[k].is_duplicate

\* C11 witness: three records of source A with the same text and no usable
\* target (null, then the sentinel, then any), all returned unmarked
C11_Witness ==
    /\ pv_pc = "once"
    /\ Len(validated_refs) = 3
    /\ Len(final_refs) = 3
    /\ Get(validated_refs[1], "target_id", "absent") = NoneVal
    /\ Get(validated_refs[2], "target_id", "absent") = "UNKNOWN"
    /\ \A k \in 1..3 :
          /\ final_refs[k].source_id = "A"
          /\ final_refs[k].target_id = "UNKNOWN"
          /\ final_refs[k].source_context = <<"a">>
          /\ ~final_refs[k].is_duplicate

\* the validator skipped no record, so that the k-th output answers the k-th
\* input
Aligned == Validated /\ Len(final_refs) = Len(validated_refs)

\* C12: a returned record has is_self_reference = true whenever its source_id
\* equals its target_id or the Judge's record for it had is_self_reference =
\* true.
C12_SelfRefKeepsJudgeFlag ==
    Aligned =>
        \A k \in 1..Len(final_refs) :
            ( \/ final_refs[k].source_id = final_refs[k].target_id
              \/ Get(validated_refs[k], "is_self_reference", FALSE) )
            => final_refs[k].is_self_reference

HasSource(ref) == ~Falsy(Get(ref, "source_id", NoneVal))

HasTarget(ref) == ~Falsy(Get(ref, "target_id", NoneVal))

\* the input records the validator does not skip, in input order
Addressable(refs) == SelectSeq(refs, HasSource)

\* C21: the validator returns, in input order, exactly one record for each
\* input record that has a source_id; a record without target_id is kept
\* with target_id "UNKNOWN" and a non-empty reasoning.
C21_DropsOnlyMissingSource ==
    Validated =>
        /\ Len(final_refs) = Len(Addressable(validated_refs))
        /\ \A k \in 1..Len(final_refs) :
              k <= Len(Addressable(validated_refs)) =>
                LET ref == Addressable(validated_refs)[k]
                IN /\ final_refs[k].source_id = ref.source_id
                   /\ final_refs[k].source_context = ref.source_verbatim
                   /\ ~HasTarget(ref) =>
                         /\ final_refs[k].target_id = "UNKNOWN"
                         /\ final_refs[k].reasoning # ""
                         /\ final_refs[k].reasoning # NoneVal

\* C21 witness: of three input records the second has no source_id and the
\* third no target_id and no reasoning; two records are returned, the last
\* one with the sentinel target and the default reasoning
C21_Witness ==
    /\ pv_pc = "once"
    /\ Len(validated_refs) = 3
    /\ HasSource(validated_refs[1])
    /\ ~HasSource(validated_refs[2])
    /\ ~HasTarget(validated_refs[3])
    /\ validated_refs[3].reasoning = ""
    /\ Len(final_refs) = 2
    /\ final_refs[2].target_id = "UNKNOWN"
    /\ final_refs[2].reasoning = MissingTargetReason

\* C24: the validator only adds flags.  The record returned for an input
\* record carries its source_id, source_header, verbatim text and
\* mapper_verdict; when the input has a target_id it also carries its
\* target_id, judge_verdict and reasoning; when it has none, the reasoning is
\* replaced only if it was empty.
C24_OnlyAddsFlags ==
    Validated =>
        \A k \in 1..Len(final_refs) :
            k <= Len(Addressable(validated_refs)) =>
              LET ref == Addressable(validated_refs)[k]
              IN /\ final_refs[k].source_id = ref.source_id
                 /\ final_refs[k].source_header = ref.source_header
                 /\ final_refs[k].source_context = ref.source_verbatim
                 /\ final_refs[k].mapper_verdict = ref.mapper_verdict
                 /\ HasTarget(ref) =>
                       /\ final_refs[k].target_id = ref.target_id
                       /\ final_refs[k].judge_verdict = ref.judge_verdict
                       /\ final_refs[k].reasoning = ref.reasoning
                 /\ (~HasTarget(ref) /\ ref.reasoning # "") =>
                       final_refs[k].reasoning = ref.reasoning

\* C24 witness: a record with a target comes out with the Judge's verdict
\* and reasoning, and a record without target that the Judge accepted for
\* the reason "why" comes out rejected with the same reason
C24_Witness ==
    /\ pv_pc = "once"
    /\ Len(validated_refs) = 2
    /\ Len(final_refs) = 2
    /\ HasTarget(validated_refs[1])
    /\ final_refs[1].judge_verdict = "ACCEPT"
    /\ final_refs[1].reasoning = "ok"
    /\ ~HasTarget(validated_refs[2])
    /\ validated_refs[2].judge_verdict = "ACCEPT"
    /\ validated_refs[2].reasoning = "why"
    /\ final_refs[2].judge_verdict = "REJECT"
    /\ final_refs[2].reasoning = "why"

\* C28: every returned record marked is_duplicate overlaps the text of an
\* earlier returned record of the same (source_id, target_id) pair that is
\* itself not marked is_duplicate.
C28_DuplicateCoveredByNonDuplicate ==
    Validated =>
        \A k \in 1..Len(final_refs) :
            final_refs[k].is_duplicate =>
                \E j \in 1..(k - 1) :
                    /\ SamePair(final_refs[j], final_refs[k])
                    /\ ~final_refs[j].is_duplicate
                    /\ \/ StrIn(NormText(final_refs[j].source_context),
                                NormText(final_refs[k].source_context))
                       \/ StrIn(NormText(final_refs[k].source_context),
                                NormText(final_refs[j].source_context))

-----------------------------------------------------------------------------
(* Properties of a run *)

MapperReturned == pc \in {"judge", "done"} /\ scanned_refs # <<>>

JudgeReturned == pc = "done" /\ mapped_refs # <<>>

\* C5: the Mapper returns exactly one MappedReference per ScannedReference
\* it was given, whatever the oracle replied.
C5_MapperCardinality ==
    MapperReturned => Len(mapped_refs) = Len(scanned_refs)

\* C6: the Judge stage yields exactly one judged record per MappedReference
\* it was given, whatever the oracle replied.
C6_JudgeCardinality ==
    JudgeReturned => Len(validated_refs) = Len(mapped_refs)

\* C7: the oracle calls in flight over the Scanner, Mapper and Judge tasks
\* together never exceed the capacity of the pool (5).
C7_InFlightBounded == OracleCallsInFlight <= MapperPoolSize

\* the references of the batches whose call and parsing succeeded, in batch
\* order
RECURSIVE FoundBySucceeded(_)
FoundBySucceeded(tasks) ==
    IF tasks = <<>> THEN <<>>
    ELSE (IF Head(tasks).failed THEN <<>> ELSE Head(tasks).out)
         \o FoundBySucceeded(Tail(tasks))

\* C8: when _scan_batches returns, it returns normally (the run goes on to
\* the Mapper, or ends with the empty result when nothing was found) and its
\* list is made of the references of every batch that did not fail, a failed
\* batch contributing nothing.  (A cancelled run does not return.)
C8_ScannerDegrades ==
    [][ (pc = "scan" /\ pc' # "scan" /\ ~cancelled') =>
           /\ scanned_refs' = FoundBySucceeded(scan_tasks)
           /\ \/ pc' = "map" /\ scanned_refs' # <<>>
              \/ pc' = "done" /\ scanned_refs' = <<>> /\ result' = EmptyResult
      ]_vars

\* C8 witness: three batches have returned, the oracle failed on batch 2, and
\* batches 1 and 3 found references
C8_Witness ==
    /\ pc = "scan"
    /\ Len(scan_tasks) = 3
    /\ AllDone(scan_tasks)
    /\ scan_tasks[2].failed
    /\ scan_tasks[1].out # <<>>
    /\ scan_tasks[3].out # <<>>

\* C9: with a well-formed document the run never ends with the run-level
\* error result, whatever the oracle replied.
C9_OnlyPreparationFatal ==
    (pc = "done" /\ doc_ok) => "error" \notin DOMAIN result.stats

\* C10: every MappedReference a mapper task produced has is_valid = TRUE
\* exactly when its target_id is not null.
C10_ValidIffTargetNonNull ==
    /\ \A c \in 1..Len(map_tasks) : \A i \in 1..Len(map_tasks[c].out) :
          map_tasks[c].out[i].is_valid <=> map_tasks[c].out[i].target_id # NoneVal
    /\ \A i \in 1..Len(mapped_refs) :
          mapped_refs[i].is_valid <=> mapped_refs[i].target_id # NoneVal

\* the run went through the Judge, the validator and the formatter
Formatted == pc = "done" /\ pv_pc = "once"

\* the surfaced record m is the final record r
Surfaces(m, r) ==
    /\ result.reference_map[m].source_id = r.source_id
    /\ result.reference_map[m].target_id = r.target_id
    /\ result.reference_map[m].source_context = r.source_context
    /\ result.reference_map[m].is_self_reference = r.is_self_reference
    /\ result.reference_map[m].is_duplicate = r.is_duplicate

\* C13: a final record with source_id = target_id and no earlier record of
\* the same pair has is_self_reference = true and is_duplicate = false, and
\* it is in the reference_map the run returns.
C13_SelfReferenceSurfaces ==
    Formatted =>
        \A k \in 1..Len(final_refs) :
            ( /\ final_refs[k].source_id = final_refs[k].target_id
              /\ ~\E j \in 1..(k - 1) : SamePair(final_refs[j], final_refs[k]) )
            => /\ final_refs[k].is_self_reference
               /\ ~final_refs[k].is_duplicate
               /\ \E m \in 1..Len(result.reference_map) : Surfaces(m, final_refs[k])

\* C13 witness: the run ended with the reference s1 -> s1 first in the final
\* list and in the reference_map, flagged as a self-reference
C13_Witness ==
    /\ Formatted
    /\ final_refs # <<>>
    /\ final_refs[1].source_id = SectionId(1)
    /\ final_refs[1].target_id = SectionId(1)
    /\ result.reference_map # <<>>
    /\ Surfaces(1, final_refs[1])
    /\ result.reference_map[1].is_self_reference

NonDuplicates(final) == SelectSeq(final, LAMBDA r : ~r.is_duplicate)

\* C14: the reference_map holds exactly the final records that are not
\* duplicates, in their order: no record marked is_duplicate is in it, and
\* every other record is, whatever its judge_verdict.
C14_MapIsNonDuplicates ==
    Formatted =>
        /\ Len(result.reference_map) = Len(NonDuplicates(final_refs))
        /\ \A m \in 1..Len(result.reference_map) :
              m <= Len(NonDuplicates(final_refs))
              => Surfaces(m, NonDuplicates(final_refs)[m])

\* Python's order on the strings "s<i>": the decimal digits of i, compared
\* from the left (i < 100)
DecimalDigits(i) == IF i < 10 THEN <<i>> ELSE <<i \div 10, i % 10>>

RECURSIVE DigitsLeq(_, _)
DigitsLeq(a, b) ==
    IF a = <<>> THEN TRUE
    ELSE IF b = <<>> THEN FALSE
    ELSE IF Head(a) # Head(b) THEN Head(a) < Head(b)
    ELSE DigitsLeq(Tail(a), Tail(b))

SectionNumber(id) == CHOOSE i \in 1..n_sections : SectionId(i) = id

\* a <= b as strings, or in the order of the sections in the document
IdLeq(a, b) ==
    \/ DigitsLeq(DecimalDigits(SectionNumber(a)), DecimalDigits(SectionNumber(b)))
    \/ SectionNumber(a) <= SectionNumber(b)

\* C15: the records of the reference_map a run returns are in non-decreasing
\* order of source_id (under either order of the ids).
C15_SortedBySource ==
    Formatted =>
        \A m \in 1..(Len(result.reference_map) - 1) :
            IdLeq(result.reference_map[m].source_id,
                  result.reference_map[m + 1].source_id)

\* the reasoning strings that come from the oracle (the Mapper's
\* justification, the Judge's reason)
OracleReasons == { "resolved by header", "ok", "no" }

\* C16: a reference the Mapper's oracle mapped onto an INFO section is
\* surfaced as invalid (its judge_verdict is not ACCEPT) with a reasoning
\* that the pipeline, not the oracle, wrote.
C16_InfoTargetSurfacesInvalid ==
    Formatted =>
        \A m \in 1..Len(result.reference_map) :
            result.reference_map[m].target_type = "INFO"
            => /\ result.reference_map[m].judge_verdict # "ACCEPT"
               /\ result.reference_map[m].reasoning \notin OracleReasons

Range(f) == { f[x] : x \in DOMAIN f }

\* input preparation has run on a well-formed document
Prepared == pc \in {"scan", "map", "judge", "done"} /\ doc_ok

\* C17: after input preparation a SKIP or HEADER section is in neither the
\* source set (what the Scanner is sent) nor the lexicon nor the Mapper's
\* target set; an INFO section is in the source set only; a CONTENT section
\* is in all of them.
C17_PreparationExcludes ==
    Prepared =>
        \A i \in 1..n_sections :
            LET id        == SectionId(i)
                in_source == \E b \in DOMAIN Batches(SourceDocuments(n_sections), ScanBatchSize) :
                                id \in Range(Batches(SourceDocuments(n_sections), ScanBatchSize)[b])
                in_lexicon == id \in Range(Lexicon(n_sections))
                in_targets == id \in Range(TargetSections(n_sections))
            IN CASE SectionType(i) \in {"SKIP", "HEADER"} ->
                        ~in_source /\ ~in_lexicon /\ ~in_targets
                 [] SectionType(i) = "INFO" ->
                        in_source /\ ~in_lexicon /\ ~in_targets
                 [] OTHER -> in_source /\ in_lexicon /\ in_targets

FailureReasons == { "oracle call failed", "response not usable" }

\* out is one placeholder per reference of the batch, in the batch's order,
\* with the reference's source fields, is_valid = false, a null target_id and
\* the justification prefix + reason
PlaceholdersFor(out, batch, prefix) ==
    \E reason \in FailureReasons :
        /\ Len(out) = Len(batch)
        /\ \A i \in 1..Len(batch) :
              /\ out[i].source_id = batch[i].source_id
              /\ out[i].source_header = batch[i].source_header
              /\ out[i].source_verbatim = batch[i].source_verbatim
              /\ out[i].is_valid = FALSE
              /\ out[i].target_id = NoneVal
              /\ out[i].justification = prefix \o reason

MapperChunk(c) == Batches(scanned_refs, MapperBatchSize)[c]

\* C19 as stated: a mapper task whose oracle call failed returned one
\* placeholder per reference of its chunk, justified "mapper failed: <reason>".
C19_PlaceholdersLowerCase ==
    \A c \in 1..Len(map_tasks) :
        (map_tasks[c].st = "done" /\ map_tasks[c].failed)
        => PlaceholdersFor(map_tasks[c].out, MapperChunk(c), "mapper failed: ")

\* C19 amended: the justification reads "Mapper failed: <reason>".
C19_Placeholders ==
    \A c \in 1..Len(map_tasks) :
        (map_tasks[c].st = "done" /\ map_tasks[c].failed)
        => PlaceholdersFor(map_tasks[c].out, MapperChunk(c), "Mapper failed: ")

\* C19 witness: the mapper task of a chunk of two references failed and
\* returned two placeholders
C19_Witness ==
    /\ pc = "map"
    /\ Len(scanned_refs) = 2
    /\ map_tasks[1].st = "done"
    /\ map_tasks[1].failed
    /\ Len(map_tasks[1].out) = 2
    /\ map_tasks[1].out[2].source_id = scanned_refs[2].source_id
    /\ map_tasks[1].out[2].target_id = NoneVal

JudgeBatchOf(b) == Batches(mapped_refs, JudgeBatchSize)[b]

\* out is one record per reference of the batch, in the batch's order, with
\* judge_verdict ERROR and is_valid false, and with the Mapper's source
\* fields, target_id and verdict (ACCEPT exactly when the Mapper's is_valid)
ErrorRecordsFor(out, batch) ==
    /\ Len(out) = Len(batch)
    /\ \A i \in 1..Len(batch) :
          /\ out[i].judge_verdict = "ERROR"
          /\ out[i].is_valid = FALSE
          /\ out[i].source_id = batch[i].source_id
          /\ out[i].source_header = batch[i].source_header
          /\ out[i].source_verbatim = batch[i].source_verbatim
          /\ out[i].target_id = batch[i].target_id
          /\ (out[i].mapper_verdict = "ACCEPT") <=> batch[i].is_valid

\* C20: a judge task whose oracle call raised, or whose reply was unusable,
\* returned every reference of its batch as an ERROR record that keeps the
\* Mapper's data; a task that did not fail returned no ERROR record.
C20_JudgeFailureKeepsBatch ==
    \A b \in 1..Len(judge_tasks) :
        judge_tasks[b].st = "done"
        => IF judge_tasks[b].failed
           THEN ErrorRecordsFor(judge_tasks[b].out, JudgeBatchOf(b))
           ELSE \A i \in 1..Len(judge_tasks[b].out) :
                   judge_tasks[b].out[i].judge_verdict # "ERROR"

\* C20 witness: of two judge batches the first (three references) failed and
\* the second was judged and accepted
C20_Witness ==
    /\ pc = "judge"
    /\ Len(judge_tasks) = 2
    /\ AllDone(judge_tasks)
    /\ judge_tasks[1].failed
    /\ Len(judge_tasks[1].out) = JudgeBatchSize
    /\ judge_tasks[1].out[JudgeBatchSize].judge_verdict = "ERROR"
    /\ ~judge_tasks[2].failed
    /\ Len(judge_tasks[2].out) = 1
    /\ judge_tasks[2].out[1].judge_verdict = "ACCEPT"

\* the concatenation of a list of lists
RECURSIVE Concat(_)
Concat(lists) ==
    IF lists = <<>> THEN <<>>
    ELSE Concat(SubSeq(lists, 1, Len(lists) - 1)) \o lists[Len(lists)]

\* a task moves from new to calling to done and is never called again
OneCall(old, new) ==
    \/ new.st = old.st
    \/ old.st = "new" /\ new.st = "calling"
    \/ old.st = "calling" /\ new.st = "done"

\* C25: while the Scanner runs there is one task per batch, the batches
\* are consecutive, non-empty, of at most 5 sections and together give the
\* source sections in order, their number is ceil(n/5) (none for an empty
\* document), and each task makes one oracle call.
C25_OneCallPerBatch ==
    /\ [](pc = "scan" =>
            LET batches == Batches(SourceDocuments(n_sections), ScanBatchSize)
            IN /\ Len(scan_tasks) = Len(batches)
               /\ Len(batches) * ScanBatchSize >= n_sections
               /\ (Len(batches) - 1) * ScanBatchSize < n_sections \/ n_sections = 0
               /\ n_sections = 0 => Len(batches) = 0
               /\ \A b \in 1..Len(batches) :
                     Len(batches[b]) >= 1 /\ Len(batches[b]) <= ScanBatchSize
               /\ Concat(batches) = SourceDocuments(n_sections))
    /\ [][ (pc = "scan" /\ pc' = "scan") =>
             /\ Len(scan_tasks') = Len(scan_tasks)
             /\ \A b \in 1..Len(scan_tasks) : OneCall(scan_tasks[b], scan_tasks'[b])
         ]_vars

\* C25 witness: the three batches of the 11-section document have all been
\* called and have returned
C25_Witness ==
    /\ pc = "scan"
    /\ n_sections = SmallDoc
    /\ Len(scan_tasks) = 3
    /\ AllDone(scan_tasks)

\* the outputs of the tasks, by batch index
RECURSIVE InBatchOrder(_)
InBatchOrder(tasks) ==
    IF tasks = <<>> THEN <<>>
    ELSE InBatchOrder(SubSeq(tasks, 1, Len(tasks) - 1)) \o tasks[Len(tasks)].out

\* C26: what each stage returns is the outputs of its batches in batch
\* order, and the result of the run is the validator and formatter applied
\* to that list: nothing depends on the order in which the calls completed.
C26_OrderByBatchIndex ==
    [][ /\ (pc = "scan" /\ pc' = "map") => scanned_refs' = InBatchOrder(scan_tasks)
        /\ (pc = "map" /\ pc' = "judge") => mapped_refs' = InBatchOrder(map_tasks)
        /\ (pc = "judge" /\ pc' = "done") =>
              /\ validated_refs' = InBatchOrder(judge_tasks)
              /\ final_refs' = ProtocolValidate(InBatchOrder(judge_tasks)).final
              /\ result' = FormatOutputV7(n_sections, final_refs')
      ]_vars

\* C26 witness: the second scanner batch has returned a reference while the
\* call of the first is still in flight
C26_Witness ==
    /\ pc = "scan"
    /\ Len(scan_tasks) >= 2
    /\ scan_tasks[1].st = "calling"
    /\ scan_tasks[2].st = "done"
    /\ scan_tasks[2].out # <<>>

\* C27: a reference the Mapper rejected ends with target_id "UNKNOWN" and
\* judge_verdict "REJECT", whatever the Judge's verdict was.
C27_MapperRejectStaysRejected ==
    (Formatted /\ Len(final_refs) = Len(validated_refs)) =>
        \A k \in 1..Len(final_refs) :
            validated_refs[k].mapper_verdict = "REJECT"
            => /\ final_refs[k].target_id = "UNKNOWN"
               /\ final_refs[k].judge_verdict = "REJECT"
               /\ result.reference_map[k].judge_verdict = "REJECT"

\* C27 witness: the Mapper rejected the reference, the Judge's oracle
\* accepted it, and it is returned as rejected
C27_Witness ==
    /\ Formatted
    /\ Len(final_refs) = 1
    /\ mapped_refs[1].is_valid = FALSE
    /\ validated_refs[1].mapper_verdict = "REJECT"
    /\ validated_refs[1].judge_verdict = "ACCEPT"
    /\ final_refs[1].target_id = "UNKNOWN"
    /\ final_refs[1].judge_verdict = "REJECT"

AllTasks == scan_tasks \o map_tasks \o judge_tasks

\* C22: a cancellation while a stage waits for its batch tasks cancels every
\* task of the stage that has not returned (none goes on, none turns the
\* cancellation into a result), the run ends cancelled without a result,
\* and a result is only ever returned by a run that was not cancelled.
C22_CancelIsAllOrNothing ==
    /\ [](cancelled =>
            /\ pc = "cancelled"
            /\ result = NoResult
            /\ \A b \in 1..Len(AllTasks) : AllTasks[b].st \in {"done", "cancelled"})
    /\ [](result # NoResult => pc = "done" /\ ~cancelled)
    /\ [][ (~cancelled /\ cancelled') =>
             /\ Len(AllTasks') = Len(AllTasks)
             /\ \A b \in 1..Len(AllTasks) :
                   AllTasks'[b] = IF AllTasks[b].st = "done" THEN AllTasks[b]
                                  ELSE [AllTasks[b] EXCEPT !.st = "cancelled"]
         ]_vars

\* C22 witness: the run was cancelled in the Scanner when one batch had
\* returned a reference and the call of another was in flight
C22_Witness ==
    /\ cancelled
    /\ result = NoResult
    /\ \E a, b \in 1..Len(scan_tasks) :
          /\ scan_tasks[a].st = "done" /\ scan_tasks[a].out # <<>>
          /\ scan_tasks[b].st = "cancelled"

\* the tasks of the stage that have returned
DoneTasks(tasks) == { b \in 1..Len(tasks) : tasks[b].st = "done" }

\* the values the Mapper has reported, after the 5, 10 and 30 of the run
MapperReported == SubSeq(progress, 4, Len(progress))

C29_AtMostMaxRetriesPlusOneCalls == worker_calls <= max_retries + 1

\* a JSON list or object, without blanks around it
IsContainer(j) ==
    /\ Len(j) >= 2
    /\ j[1] \in {"[", "{"}
    /\ j[Len(j)] \in {"]", "}"}
    /\ JsonValid(j)

\* the list or object at a..b of the text is part of no larger one
Outermost(text, a, b) ==
    /\ IsContainer(SubSeq(text, a, b))
    /\ \A c \in 1..a : \A d \in b..Len(text) :
          IsContainer(SubSeq(text, c, d)) => c = a /\ d = b

\* words, digits, blanks and brackets that hold no JSON list or object
IsProse(p) ==
    /\ \A i \in 1..Len(p) : p[i] \notin {Backquote, Quote, Backslash}
    /\ \A a \in 1..Len(p) : \A b \in a..Len(p) : ~IsContainer(SubSeq(p, a, b))

\* a language tag after the opening fence
IsTag(p) == \A i \in 1..Len(p) : p[i] \in {"u", " "}

JsonParsed == json_result # NoResult

\* C23: the value of a JSON list or object is returned when prose (blanks
\* included) surrounds it and when a code fence with a language tag
\* encloses it, and None is returned for the empty text.
C23_EmbeddedJsonReturned ==
    JsonParsed =>
        /\ response_text = <<>> => json_result = JsonNone
        /\ \A a \in 1..Len(response_text) : \A b \in a..Len(response_text) :
              LET before == SubSeq(response_text, 1, a - 1)
                  json   == SubSeq(response_text, a, b)
                  after  == SubSeq(response_text, b + 1, Len(response_text))
              IN /\ (Outermost(response_text, a, b) /\ IsProse(before) /\ IsProse(after))
                    => json_result = JsonLoads(json)
                 /\ ( /\ IsContainer(json)
                      /\ Len(before) >= 3
                      /\ SubSeq(before, 1, 3) = Fence
                      /\ IsTag(SubSeq(before, 4, Len(before)))
                      /\ after = Fence )
                    => json_result = JsonLoads(json)

====
